---- MODULE Spec2Model ----
(***************************************************************************)
(* Model of the MT_workflow translation pipeline:                          *)
(*   Preprocess/PreprocessAgent.py   registry, masking, splitting          *)
(*   Postprocess/PostprocessAgent.py tag check, final reduction            *)
(*   TranslationManager.py           execute_workflow                      *)
(*                                                                         *)
(* A text is a sequence of one-character strings, so the regular           *)
(* expressions of the source are evaluated character by character.         *)
(***************************************************************************)
EXTENDS Integers, Sequences, FiniteSets, TLC

(***************************************************************************)
(* Bounds of the model.                                                    *)
(***************************************************************************)
\* a raw text given to the preprocessing alone is the concatenation of at most
\* MaxPieces pieces of Pieces
MaxPieces == 4
\* a raw text given to a whole run of execute_workflow has at most MaxRunPieces
MaxRunPieces == 2
\* uuid4().hex[:4] is drawn from the first MaxSuffix of the 16^4 values
MaxSuffix == 2
\* in one run the translation and polishing steps depart from the behaviour of
\* the mocks at most MaxFaults times
MaxFaults == 3
\* an argument of a call of check_tags_consistency on its own is the
\* concatenation of at most MaxTagPieces pieces of TagPieces
MaxTagPieces == 2
\* the argument of a call of exact_term_match is the concatenation of at most
\* MaxTermPieces pieces of TermPieces
MaxTermPieces == 2
\* a group chat is followed for at most MaxMessages messages
MaxMessages == 7
\* the raw text of a run that shares the process with preprocessor_reply_func
\* has at most MaxSharedPieces pieces
MaxSharedPieces == 1
\* preprocessor_reply_func is called at most MaxReplies times during a run
MaxReplies == 1
\* the llm_config of the caller has at most MaxConfigKeys keys
MaxConfigKeys == 3

(***************************************************************************)
(* Characters and the character classes of the patterns.                   *)
(***************************************************************************)
Digits == {"0", "1", "2", "3", "4", "5", "6", "7", "8", "9"}

Letters ==
  {"a", "b", "c", "f", "h", "p", "s", "t", "x", "z",
   "A", "B", "C", "D", "E", "F", "I", "L", "M", "P", "R", "U"}

HexDigits ==
  <<"0", "1", "2", "3", "4", "5", "6", "7", "8", "9", "A", "B", "C", "D", "E", "F">>

Alnum == Letters \cup Digits

Alphabet ==
  Alnum \cup {"_", ".", "+", "-", "@", ":", "/", "[", "]", "!", "?", "'", " "}

\* \w
WordChars == Alnum \cup {"_"}

\* \s
SpaceChars == {" "}

\* [^\s]
NonSpaceChars == Alphabet \ SpaceChars

\* [a-zA-Z0-9_.+-]
EmailLocalChars == Alnum \cup {"_", ".", "+", "-"}

\* [a-zA-Z0-9-]
EmailHostChars == Alnum \cup {"-"}

\* [a-zA-Z0-9-.]
EmailTailChars == Alnum \cup {"-", "."}

\* [.!?] of the sentence delimiters (the CJK terminators are not in the alphabet)
Terminators == {".", "!", "?"}

Slice(t, i, j) == IF j < i THEN <<>> ELSE SubSeq(t, i, j)

\* t has sub starting at index i
StartsAt(t, sub, i) ==
  /\ i >= 1
  /\ i + Len(sub) - 1 <= Len(t)
  /\ \A k \in 1..Len(sub) : t[i + k - 1] = sub[k]

\* the index after the longest run of characters of S that starts at i
RECURSIVE RunEnd(_, _, _)
RunEnd(t, i, S) ==
  IF i <= Len(t) /\ t[i] \in S THEN RunEnd(t, i + 1, S) ELSE i

\* first index >= i at which sub starts, 0 when there is none
RECURSIVE Find(_, _, _)
Find(t, sub, i) ==
  IF i + Len(sub) - 1 > Len(t) THEN 0
  ELSE IF StartsAt(t, sub, i) THEN i
  ELSE Find(t, sub, i + 1)

Contains(t, sub) == Find(t, sub, 1) # 0

(***************************************************************************)
(* The three detectors of local_masking_logic.  XAt(t, i) is the index     *)
(* after the match of the pattern that starts at i, 0 when none does.      *)
(***************************************************************************)
\* [a-zA-Z0-9_.+-]+@[a-zA-Z0-9-]+\.[a-zA-Z0-9-.]+
EmailAt(t, i) ==
  LET j == RunEnd(t, i, EmailLocalChars) IN
  IF j = i \/ j > Len(t) \/ t[j] # "@" THEN 0
  ELSE LET k == RunEnd(t, j + 1, EmailHostChars) IN
       IF k = j + 1 \/ k > Len(t) \/ t[k] # "." THEN 0
       ELSE LET m == RunEnd(t, k + 1, EmailTailChars) IN
            IF m = k + 1 THEN 0 ELSE m

\* \d{1,3}\. : the index after the dot, 0 when the group does not match at i
OctetDot(t, i) ==
  LET j == RunEnd(t, i, Digits) IN
  IF i = 0 \/ j = i \/ j - i > 3 \/ j > Len(t) \/ t[j] # "." THEN 0 ELSE j + 1

\* \b\d{1,3}\.\d{1,3}\.\d{1,3}\.\d{1,3}\b
IPAt(t, i) ==
  IF i > 1 /\ t[i - 1] \in WordChars THEN 0
  ELSE LET d == OctetDot(t, OctetDot(t, OctetDot(t, i)))
           e == RunEnd(t, d, Digits)
       IN IF d = 0 \/ e = d \/ e - d > 3 THEN 0
          ELSE IF e <= Len(t) /\ t[e] \in WordChars THEN 0
          ELSE e

\* https?://[^\s]+
URLAt(t, i) ==
  LET http == <<"h", "t", "t", "p">>
      sep == <<":", "/", "/">>
      j == IF StartsAt(t, http, i)
           THEN (IF StartsAt(t, <<"s">>, i + 4) THEN i + 5 ELSE i + 4)
           ELSE 0
  IN IF j = 0 \/ ~StartsAt(t, sep, j) THEN 0
     ELSE LET m == RunEnd(t, j + 3, NonSpaceChars)
          IN IF m = j + 3 THEN 0 ELSE m

\* the categories in the iteration order of the patterns dict
Labels == <<"EMAIL", "IP", "URL">>

LabelChars(label) ==
  CASE label = "EMAIL" -> <<"E", "M", "A", "I", "L">>
    [] label = "IP" -> <<"I", "P">>
    [] label = "URL" -> <<"U", "R", "L">>

MatchAt(label, t, i) ==
  CASE label = "EMAIL" -> EmailAt(t, i)
    [] label = "IP" -> IPAt(t, i)
    [] label = "URL" -> URLAt(t, i)

\* leftmost match at or after pos: <<start, index after the end>>, <<0, 0>> if none
RECURSIVE NextMatch(_, _, _)
NextMatch(label, t, pos) ==
  IF pos > Len(t) THEN <<0, 0>>
  ELSE LET e == MatchAt(label, t, pos) IN
       IF e # 0 THEN <<pos, e>> ELSE NextMatch(label, t, pos + 1)

(***************************************************************************)
(* Placeholders and the registry.  mask_map is a Python dict: a sequence   *)
(* of <<placeholder, original>> pairs in insertion order, where assigning  *)
(* an existing key replaces its value in place.                            *)
(***************************************************************************)
\* the digit of n at hexadecimal position k (0 is the last one)
HexDigit(n, k) == HexDigits[((n \div (16 ^ k)) % 16) + 1]

\* uuid.uuid4().hex[:4].upper() for the random 16-bit value n
Hex4(n) == <<HexDigit(n, 3), HexDigit(n, 2), HexDigit(n, 1), HexDigit(n, 0)>>

\* the values the suffix generation may return
Suffixes == 0..(MaxSuffix - 1)

\* a placeholder format with a sentence terminator in it
PlaceholderWithDot(label, n) ==
  <<"[", "[">> \o LabelChars(label) \o <<".">> \o Hex4(n) \o <<"]", "]">>

\* f"[[{label}_{suffix}]]"
Placeholder(label, n) ==
  <<"[", "[">> \o LabelChars(label) \o <<"_">> \o Hex4(n) \o <<"]", "]">>

DictKeys(d) == {d[i][1] : i \in 1..Len(d)}

DictValues(d) == {d[i][2] : i \in 1..Len(d)}

\* d[k] = v
DictSet(d, k, v) ==
  IF k \in DictKeys(d)
  THEN [i \in 1..Len(d) |-> IF d[i][1] = k THEN <<k, v>> ELSE d[i]]
  ELSE Append(d, <<k, v>>)

(***************************************************************************)
(* local_masking_logic as one call.  sfx lists the values that the         *)
(* successive calls of uuid4 return.                                       *)
(***************************************************************************)
\* re.sub(pattern, replace, t) from index p on: <<text, mask_map, draws>>,
\* where acc is <<text so far, mask_map so far>> and n counts the draws
RECURSIVE MaskPass(_, _, _, _, _, _)
MaskPass(label, t, p, n, acc, sfx) ==
  LET m == NextMatch(label, t, p) IN
  IF m[1] = 0 THEN <<acc[1] \o Slice(t, p, Len(t)), acc[2], n>>
  ELSE LET placeholder == Placeholder(label, sfx[n + 1]) IN
       MaskPass(label, t, m[2], n + 1,
                <<acc[1] \o Slice(t, p, m[1] - 1) \o placeholder,
                  DictSet(acc[2], placeholder, Slice(t, m[1], m[2] - 1))>>, sfx)

\* the loop over the patterns from the label at index l on
RECURSIVE MaskFrom(_, _, _, _, _)
MaskFrom(l, t, n, map, sfx) ==
  IF l > Len(Labels) THEN <<t, map>>
  ELSE LET r == MaskPass(Labels[l], t, 1, n, <<(<<>>), map>>, sfx) IN
       MaskFrom(l + 1, r[1], r[3], r[2], sfx)

\* <<the masked text, registry.mask_map after the call>>
local_masking_logic(text, map, sfx) == MaskFrom(1, text, 0, map, sfx)

(***************************************************************************)
(* perform_final_reduction                                                 *)
(***************************************************************************)
\* t[i..].replace(old, new): every non-overlapping occurrence, left to right
RECURSIVE ReplaceFrom(_, _, _, _)
ReplaceFrom(t, old, new, i) ==
  LET j == Find(t, old, i) IN
  IF j = 0 THEN Slice(t, i, Len(t))
  ELSE Slice(t, i, j - 1) \o new \o ReplaceFrom(t, old, new, j + Len(old))

StrReplace(t, old, new) == ReplaceFrom(t, old, new, 1)

\* the loop over mask_map.items() from entry i on
RECURSIVE ReduceFrom(_, _, _)
ReduceFrom(t, mask_map, i) ==
  IF i > Len(mask_map) THEN t
  ELSE ReduceFrom(StrReplace(t, mask_map[i][1], mask_map[i][2]), mask_map, i + 1)

perform_final_reduction(text, mask_map) == ReduceFrom(text, mask_map, 1)

(***************************************************************************)
(* local_splitting_logic                                                   *)
(***************************************************************************)
\* s.strip()
Strip(t) ==
  LET a == RunEnd(t, 1, SpaceChars)
      ends == {j \in 0..Len(t) : \A k \in (j + 1)..Len(t) : t[k] \in SpaceChars}
      b == CHOOSE j \in ends : \A k \in ends : j <= k
  IN Slice(t, a, b)

\* re.split(r'(?<=[.!?])\s*', t) of Python 3.7 and later (an empty match
\* splits too), from index i on, where start is the index at
\* which the current piece begins: the pattern matches after every terminator
\* and takes the white space that follows
RECURSIVE SplitFrom(_, _, _)
SplitFrom(t, start, i) ==
  IF i > Len(t) + 1 THEN <<Slice(t, start, Len(t))>>
  ELSE IF i > 1 /\ t[i - 1] \in Terminators
       THEN LET e == RunEnd(t, i, SpaceChars) IN
            <<Slice(t, start, i - 1)>> \o SplitFrom(t, e, e + 1)
       ELSE SplitFrom(t, start, i + 1)

\* [s.strip() for s in sentences if s.strip()]
StripNonEmpty(pieces) ==
  SelectSeq([i \in 1..Len(pieces) |-> Strip(pieces[i])], LAMBDA s : s # <<>>)

local_splitting_logic(text) == StripNonEmpty(SplitFrom(text, 1, 1))

(***************************************************************************)
(* check_tags_consistency                                                  *)
(***************************************************************************)
\* re.findall(r"\[\[.*?\]\]", t) from index i on, as a sequence of matches:
\* a tag goes from a "[[" to the first "]]" after it, and there is none at a
\* "[[" that a line break separates from that "]]" (the dot does not match it)
RECURSIVE FindTags(_, _)
FindTags(t, i) ==
  LET a == Find(t, <<"[", "[">>, i)
      b == IF a = 0 THEN 0 ELSE Find(t, <<"]", "]">>, a + 2)
  IN IF b = 0 THEN <<>>
     ELSE IF \E k \in (a + 2)..(b - 1) : t[k] = "\n" THEN FindTags(t, a + 1)
     ELSE <<Slice(t, a, b + 1)>> \o FindTags(t, b + 2)

\* the matches of the pattern with their positions in the list of matches
TagOccurrences(t) == LET m == FindTags(t, 1) IN {<<i, m[i]>> : i \in 1..Len(m)}

\* set(re.findall(pattern, t))
TagSet(t) == LET m == FindTags(t, 1) IN {m[i] : i \in 1..Len(m)}

\* the first component of the pair check_tags_consistency returns
check_tags_consistency(original_masked, translated_text) ==
  LET original_tags == TagSet(original_masked)
      translated_tags == TagSet(translated_text)
      missing == original_tags \ translated_tags
      extra == translated_tags \ original_tags
  IN ~(missing # {} \/ extra # {})

(***************************************************************************)
(* The collaborators of execute_workflow.  The source stands in a mock for *)
(* each (an f-string around its input); the translation and polishing      *)
(* steps are external text generators, so besides the mock's output the    *)
(* model lets them lose the tags of their input or add a tag.  The fixed   *)
(* words of the mocks are abbreviated to a few characters.                 *)
(***************************************************************************)
\* t without its [[...]] tags, from index i on
RECURSIVE DropTagsFrom(_, _)
DropTagsFrom(t, i) ==
  LET a == Find(t, <<"[", "[">>, i)
      b == IF a = 0 THEN 0 ELSE Find(t, <<"]", "]">>, a + 2)
  IN IF b = 0 THEN Slice(t, i, Len(t))
     ELSE Slice(t, i, a - 1) \o DropTagsFrom(t, b + 2)

\* what a text generator may do to the tags of its input ("keep" is the mock)
Rewrite(behaviour, t) ==
  CASE behaviour = "keep" -> t
    [] behaviour = "drop" -> DropTagsFrom(t, 1)
    [] behaviour = "add" -> t \o <<"[", "[", "x", "]", "]">>

TranslateBehaviours == {"keep", "drop", "add"}

PolishBehaviours == {"keep", "drop", "add"}

\* f"这是对 '{segment}' 的模拟翻译结果。"
MockTranslation(behaviour, segment) ==
  <<"z", "'">> \o Rewrite(behaviour, segment) \o <<"'", "z">>

\* f"修复标签后的翻译: {segment}"
MockRetranslation(behaviour, segment) ==
  <<"f", ":", " ">> \o Rewrite(behaviour, segment)

\* f"润色后的: {current_translation}"
MockPolish(behaviour, current_translation) ==
  <<"p", ":", " ">> \o Rewrite(behaviour, current_translation)

\* "\n".join(final_results)
RECURSIVE JoinLines(_)
JoinLines(results) ==
  IF results = <<>> THEN <<>>
  ELSE IF Len(results) = 1 THEN results[1]
  ELSE results[1] \o <<"\n">> \o JoinLines(Tail(results))

(***************************************************************************)
(* MockStorage: the glossary, the translation memory, exact_term_match.    *)
(* The Chinese translations are written as ASCII stand-ins.                *)
(***************************************************************************)
UpperCase ==
  <<"A", "B", "C", "D", "E", "F", "G", "H", "I", "J", "K", "L", "M",
    "N", "O", "P", "Q", "R", "S", "T", "U", "V", "W", "X", "Y", "Z">>

LowerCase ==
  <<"a", "b", "c", "d", "e", "f", "g", "h", "i", "j", "k", "l", "m",
    "n", "o", "p", "q", "r", "s", "t", "u", "v", "w", "x", "y", "z">>

\* c.lower() for a character of the texts
Lower(c) ==
  IF \E i \in 1..Len(UpperCase) : UpperCase[i] = c
  THEN LowerCase[CHOOSE i \in 1..Len(UpperCase) : UpperCase[i] = c]
  ELSE c

\* the text as it is
SameText(t) == t

\* t.lower()
LowerText(t) == [i \in 1..Len(t) |-> Lower(t[i])]

AutoGen == <<"A", "u", "t", "o", "G", "e", "n">>

workflow == <<"w", "o", "r", "k", "f", "l", "o", "w">>

deterministic == <<"d", "e", "t", "e", "r", "m", "i", "n", "i", "s", "t", "i", "c">>

\* self.glossary, in insertion order
Glossary ==
  << <<AutoGen, "zh-AutoGen">>,
     <<workflow, "zh-workflow">>,
     <<deterministic, "zh-deterministic">> >>

\* self.tm_data
TmData ==
  << <<"The workflow is highly deterministic.", "zh-tm-1">>,
     <<"Using AutoGen for complex tasks.", "zh-tm-2">> >>

\* exact_term_match(text) on the glossary entries from index i on
RECURSIVE TermMatchesFrom(_, _, _)
TermMatchesFrom(entries, text, i) ==
  IF i > Len(entries) THEN <<>>
  ELSE LET k == entries[i][1]
           v == entries[i][2]
           rest == TermMatchesFrom(entries, text, i + 1)
       IN IF Contains(LowerText(text), LowerText(k))
          THEN <<[term |-> k, translation |-> v]>> \o rest
          ELSE rest

exact_term_match(entries, text) == TermMatchesFrom(entries, text, 1)

(***************************************************************************)
(* The group chat of the post-processing agents: tag_check_reply and       *)
(* state_transition_logic.                                                 *)
(***************************************************************************)
\* the sequences that list every element of the set S once
Orderings(S) ==
  {p \in [1..Cardinality(S) -> S] : \A i, j \in 1..Cardinality(S) : i # j => p[i] # p[j]}

\* "'a', 'b'": the elements of the list p from index i on, each in quotes
RECURSIVE ReprItems(_, _)
ReprItems(p, i) ==
  IF i > Len(p) THEN <<>>
  ELSE <<"'">> \o p[i] \o <<"'">>
       \o (IF i < Len(p) THEN <<",", " ">> ELSE <<>>) \o ReprItems(p, i + 1)

\* what f"{S}" may give for a set S of tags: "set()" for the empty set, else
\* the elements in braces, in the iteration order of the set, which is any
SetReprs(S) ==
  IF S = {} THEN {<<"s", "e", "t", "(", ")">>}
  ELSE {<<"{">> \o ReprItems(p, 1) \o <<"}">> : p \in Orderings(S)}

\* the messages check_tags_consistency may return with False
\* f"Tag mismatch! Missing: {missing}, Extra: {extra}"
TagMismatchMessages(original, translated) ==
  LET missing == TagSet(original) \ TagSet(translated)
      extra == TagSet(translated) \ TagSet(original)
  IN {<<"T", "a", "g", " ", "m", "i", "s", "m", "a", "t", "c", "h", "!",
          " ", "M", "i", "s", "s", "i", "n", "g", ":", " ">>
        \o m \o <<",", " ", "E", "x", "t", "r", "a", ":", " ">> \o e :
        m \in SetReprs(missing), e \in SetReprs(extra)}

TAG_OK == <<"T", "A", "G", "_", "O", "K">>

REJECT == <<"R", "E", "J", "E", "C", "T">>

APPROVED == <<"A", "P", "P", "R", "O", "V", "E", "D">>

\* "[[MASK_1]] test", the original that tag_check_reply compares with
MaskedTest ==
  <<"[", "[", "M", "A", "S", "K", "_", "1", "]", "]", " ", "t", "e", "s",
    "t">>

\* the contents tag_check_reply may return for the message list msgs
tag_check_reply(msgs) ==
  LET last_msg == msgs[Len(msgs)].content IN
  IF ~check_tags_consistency(MaskedTest, last_msg)
  THEN {REJECT \o <<":", " ">> \o msg
          \o <<".", " ", "P", "l", "e", "a", "s", "e", " ", "r", "e", "-",
            "t", "r", "a", "n", "s", "l", "a", "t", "e", " ", "a", "n",
            "d", " ", "f", "i", "x", " ", "t", "h", "e", " ", "t", "a",
            "g", "s", ".">> :
          msg \in TagMismatchMessages(MaskedTest, last_msg)}
  ELSE {TAG_OK}

\* the name of the agent state_transition_logic returns, "None" for None
state_transition_logic(speaker, msgs) ==
  LET last_content == IF msgs # <<>> THEN msgs[Len(msgs)].content ELSE <<>> IN
  IF speaker = "Translation_Agent" THEN "Tag_Checker"
  ELSE IF speaker = "Tag_Checker"
       THEN (IF Contains(last_content, TAG_OK) THEN "Inspector_Agent"
             ELSE "Translation_Agent")
  ELSE IF speaker = "Inspector_Agent"
       THEN (IF Contains(last_content, REJECT) THEN "Translation_Agent"
             ELSE "Polisher_Agent")
  ELSE IF speaker = "Polisher_Agent" THEN "Reid_Agent"
  ELSE "None"

\* what the Translation_Agent may answer: the tag kept, the tag lost, a tag
\* added, a tag added whose name holds the words of the pass message
Candidates ==
  { MaskedTest,
    <<"t", "e", "s", "t">>,
    <<"[", "[", "M", "A", "S", "K", "_", "1", "]", "]", " ", "t", "e", "s",
      "t", " ", "[", "[", "x", "]", "]">>,
    <<"[", "[", "M", "A", "S", "K", "_", "1", "]", "]", " ", "t", "e", "s",
      "t", " ", "[", "[", "T", "A", "G", "_", "O", "K", "]", "]">> }

\* what the Inspector_Agent may answer
Verdicts == {APPROVED, REJECT \o <<":", " ">> \o <<"x">>}

(***************************************************************************)
(* TranslationEngine.__init__.  A dict is a sequence of <<key, value>>     *)
(* pairs in insertion order; the values are written as Python literals.    *)
(***************************************************************************)
\* d.update(other): the items of other assigned from index i on
RECURSIVE DictUpdateFrom(_, _, _)
DictUpdateFrom(d, other, i) ==
  IF i > Len(other) THEN d
  ELSE DictUpdateFrom(DictSet(d, other[i][1], other[i][2]), other, i + 1)

DictUpdate(d, other) == DictUpdateFrom(d, other, 1)

\* d[k] for a key k of d
DictGet(d, k) == d[CHOOSE i \in 1..Len(d) : d[i][1] = k][2]

\* the dict literal of the update call
DeterministicSettings ==
  << <<"temperature", "0">>, <<"seed", "42">>, <<"cache_seed", "42">> >>

\* the settings written into the dict of the caller itself: <<the dict of the
\* caller after the call, the llm_config of the agent>>
EngineInitInPlace(config) ==
  LET deterministic_config == DictUpdate(config, DeterministicSettings)
  IN <<deterministic_config, deterministic_config>>

\* __init__(llm_config): <<the dict of the caller after the call, the
\* llm_config of the agent>>; the update is made on a copy, a new dict
EngineInit(config) ==
  LET deterministic_config == DictUpdate(config, DeterministicSettings)
  IN <<config, deterministic_config>>

\* the keys a caller may set, each with the values it may give it
ConfigValues ==
  [config_list |-> {"[]", "[{'model': 'gpt-4'}]"},
   temperature |-> {"0", "0.7"},
   seed |-> {"42", "7"},
   cache_seed |-> {"42", "None"}]

ConfigKeys == {"config_list", "temperature", "seed", "cache_seed"}

\* the dicts of at most n items, with distinct keys and, for each key, one
\* of its values
RECURSIVE ConfigDicts(_)
ConfigDicts(n) ==
  IF n = 0 THEN {<<>>}
  ELSE LET smaller == ConfigDicts(n - 1) IN
       smaller \cup
       UNION {UNION {{Append(d, <<k, v>>) : v \in ConfigValues[k]} :
                       k \in ConfigKeys \ DictKeys(d)} : d \in smaller}

CallerConfigs == ConfigDicts(MaxConfigKeys)

(***************************************************************************)
(* The raw texts of a run.                                                 *)
(***************************************************************************)
Pieces ==
  { <<"a", "@", "b", ".", "c">>,
    <<"1", ".", "2", ".", "3", ".", "4">>,
    <<"h", "t", "t", "p", ":", "/", "/">>,
    <<"x">>,
    <<" ">>,
    <<".">> }

RECURSIVE TextsOf(_)
TextsOf(n) ==
  IF n = 0 THEN {<<>>}
  ELSE LET shorter == TextsOf(n - 1) IN
       shorter \cup {t \o p : t \in shorter, p \in Pieces}

RawTexts == TextsOf(MaxPieces)

RunTexts == TextsOf(MaxRunPieces)

SharedRunTexts == TextsOf(MaxSharedPieces)

\* the last message given to preprocessor_reply_func: a text without and a
\* text with sensitive data
ReplyTexts == {<<"x", ".">>, <<"x", " ", "a", "@", "b", ".", "c">>}

\* the concatenations of at most n elements of the set pieces
RECURSIVE TextsFrom(_, _)
TextsFrom(pieces, n) ==
  IF n = 0 THEN {<<>>}
  ELSE LET shorter == TextsFrom(pieces, n - 1) IN
       shorter \cup {t \o p : t \in shorter, p \in pieces}

\* the arguments of a call of check_tags_consistency on its own
TagPieces ==
  { <<"[", "[", "a", "]", "]">>,
    <<"[", "[", "b", "]", "]">>,
    <<"[", "[">>,
    <<"]", "]">>,
    <<"x">>,
    <<"\n">> }

TagTexts == TextsFrom(TagPieces, MaxTagPieces)

\* the arguments of a call of exact_term_match
TermPieces ==
  { AutoGen, LowerText(AutoGen), <<"A", "U", "T", "O", "G", "E", "N">>,
    workflow, <<"W", "o", "r", "k", "f", "l", "o", "w">>,
    deterministic,
    <<"A", "u", "t", "o">>, <<"f", "l", "o", "w">>,
    <<" ">>, <<".">> }

TermTexts == TextsFrom(TermPieces, MaxTermPieces)

(***************************************************************************)
(* State.                                                                  *)
(***************************************************************************)
VARIABLES
  raw_text,             \* the argument of execute_workflow
  mask_map,             \* registry.mask_map
  segments,             \* registry.segments
  label_idx,            \* position of the loop over patterns.items()
  processed_text,       \* the text the current re.sub call scans
  pos,                  \* index in processed_text at which re.sub goes on
  out,                  \* what re.sub has produced for processed_text[..pos-1]
  masked_text,
  pc,                   \* position in execute_workflow
  idx,                  \* enumerate index of the loop over the segments, from 1
  segment,
  current_translation,
  retry_count,
  is_valid,
  is_tag_ok,
  polished_text,
  final_results,
  result,               \* the value execute_workflow returns
  log,                  \* the log_step calls: <<step, idx, status>>
  restored,             \* perform_final_reduction(masked_text, mask_map), when taken
  faults,               \* departures of the collaborators from the mocks so far
  loop_segments,        \* the list object the loop over the segments iterates
  replies,              \* calls of preprocessor_reply_func so far
  original_masked,      \* first argument of a call of check_tags_consistency
  translated_text,      \* second argument of that call
  tags_ok,              \* the Boolean it returned
  tag_pc,               \* "call" before the call, "returned" after it
  glossary,             \* storage.glossary, a dict: <<term, translation>> pairs
  tm_data,              \* storage.tm_data: <<src, tgt>> pairs
  term_text,            \* the argument of a call of exact_term_match
  terms,                \* the list it returned
  term_pc,              \* "call" before the call, "returned" after it
  last_speaker,         \* name of the agent that spoke last in the group chat
  messages,             \* groupchat.messages: [name, content] records
  post_registry,        \* the PostProcessRegistry instance
  llm_config,           \* the dict the caller passes to TranslationEngine
  agent_llm_config,     \* the llm_config the Translation_Agent is built with
  engine_pc             \* "call" before TranslationEngine(llm_config), "built" after

reg_vars == <<mask_map, segments>>

mask_vars == <<label_idx, processed_text, pos, out, masked_text>>

seg_vars ==
  <<idx, segment, current_translation, retry_count, is_valid, is_tag_ok, polished_text>>

\* a call of check_tags_consistency on its own
tag_vars == <<original_masked, translated_text, tags_ok, tag_pc>>

\* what a run of execute_workflow neither reads nor writes
\* the retrieval storage and a call of exact_term_match
retrieve_vars == <<glossary, tm_data, term_text, terms, term_pc>>

\* the group chat of the post-processing agents
chat_vars == <<last_speaker, messages, post_registry>>

\* the construction of a TranslationEngine
engine_vars == <<llm_config, agent_llm_config, engine_pc>>

ext_vars == <<tag_vars, retrieve_vars, chat_vars, replies, engine_vars>>

\* the state of a run of execute_workflow
run_vars ==
  <<raw_text, reg_vars, mask_vars, pc, seg_vars, final_results, result, log, restored,
    faults, loop_segments>>

vars == <<run_vars, ext_vars>>

max_retries == 2

\* no call of check_tags_consistency on its own
TagIdle ==
  /\ original_masked = <<>>
  /\ translated_text = <<>>
  /\ tags_ok = FALSE
  /\ tag_pc = "idle"

\* MockStorage.__init__
StorageInit ==
  /\ glossary = Glossary
  /\ tm_data = TmData

\* no call of exact_term_match
RetrieveIdle ==
  /\ StorageInit
  /\ term_text = <<>>
  /\ terms = <<>>
  /\ term_pc = "idle"

\* PostProcessRegistry.__init__ (its three dicts are empty)
PostRegistryInit ==
  post_registry = [translated_segments |-> <<>>, final_outputs |-> <<>>, retry_count |-> <<>>]

\* no group chat
ChatIdle ==
  /\ last_speaker = "None"
  /\ messages = <<>>
  /\ PostRegistryInit

\* no TranslationEngine under construction
EngineIdle ==
  /\ llm_config = <<>>
  /\ agent_llm_config = <<>>
  /\ engine_pc = "idle"

ExtIdle == TagIdle /\ RetrieveIdle /\ ChatIdle /\ replies = 0 /\ EngineIdle

\* the state of the run before a call with a raw text of texts
RunInit(texts) ==
  /\ raw_text \in texts
  /\ mask_map = <<>>
  /\ segments = <<>>
  /\ label_idx = 1
  /\ processed_text = <<>>
  /\ pos = 1
  /\ out = <<>>
  /\ masked_text = <<>>
  /\ pc = "start"
  /\ idx = 1
  /\ segment = <<>>
  /\ current_translation = <<>>
  /\ retry_count = 0
  /\ is_valid = FALSE
  /\ is_tag_ok = FALSE
  /\ polished_text = <<>>
  /\ final_results = <<>>
  /\ result = <<>>
  /\ log = <<>>
  /\ restored = <<>>
  /\ faults = 0
  /\ loop_segments = <<>>

\* no run of execute_workflow in progress
NoRun == RunInit({<<>>})

\* the state before a call with a raw text of texts
InitWith(texts) == RunInit(texts) /\ ExtIdle

\* before execute_workflow(raw_text)
Init == InitWith(RunTexts)

\* before the preprocessing of a raw text
PreprocessInit == InitWith(RawTexts)

(***************************************************************************)
(* Step 1 of execute_workflow: pre_reg.reset(), local_masking_logic,       *)
(* local_splitting_logic.                                                  *)
(***************************************************************************)
\* pre_reg.reset() and the entry of local_masking_logic
Reset ==
  /\ pc = "start"
  /\ mask_map' = <<>>
  /\ segments' = <<>>
  /\ label_idx' = 1
  /\ processed_text' = raw_text
  /\ pos' = 1
  /\ out' = <<>>
  /\ pc' = "mask"
  /\ UNCHANGED <<raw_text, ext_vars, loop_segments, masked_text, seg_vars, final_results, result, log, restored, faults>>

\* one call of replace(match) by re.sub: the next match of the current pattern
Replace ==
  /\ pc = "mask"
  /\ LET label == Labels[label_idx]
         m == NextMatch(label, processed_text, pos)
     IN /\ m[1] # 0
        /\ \E n \in Suffixes :
             LET original == Slice(processed_text, m[1], m[2] - 1)
                 placeholder == Placeholder(label, n)
             IN /\ mask_map' = DictSet(mask_map, placeholder, original)
                /\ out' = out \o Slice(processed_text, pos, m[1] - 1) \o placeholder
        /\ pos' = m[2]
  /\ UNCHANGED <<raw_text, ext_vars, loop_segments, segments, label_idx, processed_text, masked_text, pc,
                 seg_vars, final_results, result, log, restored, faults>>

\* re.sub finds no further match: its result becomes processed_text, and the
\* loop goes to the next pattern or local_masking_logic returns
EndPass ==
  /\ pc = "mask"
  /\ NextMatch(Labels[label_idx], processed_text, pos)[1] = 0
  /\ LET done == out \o Slice(processed_text, pos, Len(processed_text)) IN
     /\ processed_text' = done
     /\ IF label_idx < Len(Labels)
        THEN /\ label_idx' = label_idx + 1
             /\ UNCHANGED <<masked_text, pc>>
        ELSE /\ masked_text' = done
             /\ pc' = "split"
             /\ UNCHANGED label_idx
  /\ pos' = 1
  /\ out' = <<>>
  /\ UNCHANGED <<raw_text, ext_vars, loop_segments, reg_vars, seg_vars, final_results, result, log, restored, faults>>

\* the raw text split in place of the masked text
SplitRawText ==
  /\ pc = "split"
  /\ segments' = local_splitting_logic(raw_text)
  /\ loop_segments' = segments'
  /\ log' = Append(log, <<"1", 0, "done">>)
  /\ idx' = 1
  /\ pc' = "for"
  /\ UNCHANGED <<raw_text, ext_vars, mask_map, mask_vars, segment, current_translation,
                 retry_count, is_valid, is_tag_ok, polished_text, final_results, result,
                 restored, faults>>

\* pre_reg.segments = local_splitting_logic(masked_text), log_step("1. ..."),
\* and the entry of the loop of line 51, which from then on holds the list
\* object that pre_reg.segments refers to now
Split ==
  /\ pc = "split"
  /\ segments' = local_splitting_logic(masked_text)
  /\ loop_segments' = segments'
  /\ log' = Append(log, <<"1", 0, "done">>)
  /\ idx' = 1
  /\ pc' = "for"
  /\ UNCHANGED <<raw_text, ext_vars, mask_map, mask_vars, segment, current_translation,
                 retry_count, is_valid, is_tag_ok, polished_text, final_results, result,
                 restored, faults>>

(***************************************************************************)
(* Steps 2 to 6: the loop over the segments.                               *)
(***************************************************************************)
\* a collaborator may depart from its mock while the run has faults left
Allowed(behaviour) == behaviour = "keep" \/ faults < MaxFaults

Charged(behaviour) == IF behaviour = "keep" THEN faults ELSE faults + 1

\* for idx, segment in enumerate(pre_reg.segments): the next segment, or the
\* end of the loop
ForSegment ==
  /\ pc = "for"
  /\ IF idx <= Len(loop_segments)
     THEN /\ segment' = loop_segments[idx]
          /\ pc' = "translate"
     ELSE /\ pc' = "join"
          /\ UNCHANGED segment
  /\ UNCHANGED <<raw_text, ext_vars, loop_segments, reg_vars, mask_vars, idx, current_translation, retry_count,
                 is_valid, is_tag_ok, polished_text, final_results, result, log, restored, faults>>

\* the translation of the segment, and the entry of the feedback loop (the
\* retrieval of step 2 reads the glossary only and is kept as its log entry)
Translate ==
  /\ pc = "translate"
  /\ \E behaviour \in TranslateBehaviours :
       /\ Allowed(behaviour)
       /\ current_translation' = MockTranslation(behaviour, segment)
       /\ faults' = Charged(behaviour)
  /\ log' = log \o <<(<<"2", idx, "done">>), (<<"3", idx, "done">>)>>
  /\ retry_count' = 0
  /\ is_valid' = FALSE
  /\ pc' = "check"
  /\ UNCHANGED <<raw_text, ext_vars, loop_segments, reg_vars, mask_vars, idx, segment, is_tag_ok,
                 polished_text, final_results, result, restored>>

\* while not is_valid and retry_count <= max_retries
LoopCondition == ~is_valid /\ retry_count <= max_retries

\* an iteration of the loop in which the tag check fails: re-translation
TagCheckFail ==
  /\ pc = "check"
  /\ LoopCondition
  /\ ~check_tags_consistency(segment, current_translation)
  /\ is_tag_ok' = FALSE
  /\ retry_count' = retry_count + 1
  /\ log' = Append(log, <<"4", idx, "fail">>)
  /\ \E behaviour \in TranslateBehaviours :
       /\ Allowed(behaviour)
       /\ current_translation' = MockRetranslation(behaviour, segment)
       /\ faults' = Charged(behaviour)
  /\ UNCHANGED <<raw_text, ext_vars, loop_segments, reg_vars, mask_vars, pc, idx, segment, is_valid,
                 polished_text, final_results, result, restored>>

\* an iteration of the loop in which the tag check passes
TagCheckPass ==
  /\ pc = "check"
  /\ LoopCondition
  /\ check_tags_consistency(segment, current_translation)
  /\ is_tag_ok' = TRUE
  /\ log' = Append(log, <<"4", idx, "pass">>)
  /\ is_valid' = TRUE
  /\ UNCHANGED <<raw_text, ext_vars, loop_segments, reg_vars, mask_vars, pc, idx, segment, current_translation,
                 retry_count, polished_text, final_results, result, restored, faults>>

\* a loop exit that gives up the remaining segments when the retries are used up
LoopExitAbandons ==
  /\ pc = "check"
  /\ ~LoopCondition
  /\ pc' = IF is_valid THEN "polish" ELSE "join"
  /\ UNCHANGED <<raw_text, ext_vars, loop_segments, reg_vars, mask_vars, seg_vars, final_results, result, log,
                 restored, faults>>

\* the loop condition is false: on to step 5
LoopExit ==
  /\ pc = "check"
  /\ ~LoopCondition
  /\ pc' = "polish"
  /\ UNCHANGED <<raw_text, ext_vars, loop_segments, reg_vars, mask_vars, seg_vars, final_results, result, log,
                 restored, faults>>

\* step 5
Polish ==
  /\ pc = "polish"
  /\ \E behaviour \in PolishBehaviours :
       /\ Allowed(behaviour)
       /\ polished_text' = MockPolish(behaviour, current_translation)
       /\ faults' = Charged(behaviour)
  /\ log' = Append(log, <<"5", idx, "done">>)
  /\ pc' = "restore"
  /\ UNCHANGED <<raw_text, ext_vars, loop_segments, reg_vars, mask_vars, idx, segment, current_translation,
                 retry_count, is_valid, is_tag_ok, final_results, result, restored>>

\* step 6, and the end of the loop body
Restore ==
  /\ pc = "restore"
  /\ final_results' = Append(final_results, perform_final_reduction(polished_text, mask_map))
  /\ log' = Append(log, <<"6", idx, "done">>)
  /\ idx' = idx + 1
  /\ pc' = "for"
  /\ UNCHANGED <<raw_text, ext_vars, loop_segments, reg_vars, mask_vars, segment, current_translation,
                 retry_count, is_valid, is_tag_ok, polished_text, result, restored, faults>>

\* return "\n".join(final_results)
Join ==
  /\ pc = "join"
  /\ result' = JoinLines(final_results)
  /\ pc' = "done"
  /\ UNCHANGED <<raw_text, ext_vars, loop_segments, reg_vars, mask_vars, seg_vars, final_results, log, restored, faults>>

\* the masked text restored as it is (the round trip under identity
\* translation and polishing): the reducer applied to the whole masked text
ReduceMasked ==
  /\ pc = "split"
  /\ restored' = perform_final_reduction(masked_text, mask_map)
  /\ pc' = "reduced"
  /\ UNCHANGED <<raw_text, ext_vars, loop_segments, reg_vars, mask_vars, seg_vars, final_results, result, log, faults>>

Next ==
  \/ Reset
  \/ Replace
  \/ EndPass
  \/ Split
  \/ ForSegment
  \/ Translate
  \/ TagCheckFail
  \/ TagCheckPass
  \/ LoopExit
  \/ Polish
  \/ Restore
  \/ Join

Spec == Init /\ [][Next]_vars

\* masking followed by the reduction of the unmodified masked text
RoundTripNext ==
  \/ Reset
  \/ Replace
  \/ EndPass
  \/ ReduceMasked

RoundTripSpec == PreprocessInit /\ [][RoundTripNext]_vars

\* the preprocessing alone, as preprocessor_reply_func runs it: reset, masking
\* and splitting
PreprocessNext ==
  \/ Reset
  \/ Replace
  \/ EndPass
  \/ Split

PreprocessSpec == PreprocessInit /\ [][PreprocessNext]_vars

(***************************************************************************)
(* check_tags_consistency called on its own.                               *)
(***************************************************************************)
TagCheckInit ==
  /\ NoRun
  /\ EngineIdle
  /\ replies = 0
  /\ RetrieveIdle
  /\ ChatIdle
  /\ original_masked \in TagTexts
  /\ translated_text \in TagTexts
  /\ tags_ok = FALSE
  /\ tag_pc = "call"

\* is_ok, msg = check_tags_consistency(original_masked, translated_text)
CheckTags ==
  /\ tag_pc = "call"
  /\ tags_ok' = check_tags_consistency(original_masked, translated_text)
  /\ tag_pc' = "returned"
  /\ UNCHANGED <<run_vars, retrieve_vars, chat_vars, replies, engine_vars, original_masked,
                 translated_text>>

TagCheckNext == CheckTags

TagCheckSpec == TagCheckInit /\ [][TagCheckNext]_vars

(***************************************************************************)
(* storage.exact_term_match called on its own.                             *)
(***************************************************************************)
RetrieveInit ==
  /\ NoRun
  /\ EngineIdle
  /\ replies = 0
  /\ TagIdle
  /\ ChatIdle
  /\ StorageInit
  /\ term_text \in TermTexts
  /\ terms = <<>>
  /\ term_pc = "call"

\* terms = storage.exact_term_match(term_text)
ExactTermMatch ==
  /\ term_pc = "call"
  /\ terms' = exact_term_match(glossary, term_text)
  /\ term_pc' = "returned"
  /\ UNCHANGED <<run_vars, tag_vars, chat_vars, replies, engine_vars, glossary, tm_data,
                 term_text>>

RetrieveNext == ExactTermMatch

RetrieveSpec == RetrieveInit /\ [][RetrieveNext]_vars

(***************************************************************************)
(* The group chat under state_transition_logic, from the first message of  *)
(* the Translation_Agent on.  An agent speaks when state_transition_logic  *)
(* selects it after the last speaker.                                      *)
(***************************************************************************)
ChatInit ==
  /\ NoRun
  /\ EngineIdle
  /\ replies = 0
  /\ TagIdle
  /\ RetrieveIdle
  /\ PostRegistryInit
  /\ last_speaker = "Translation_Agent"
  /\ \E c \in Candidates : messages = <<[name |-> "Translation_Agent", content |-> c]>>

\* the agent selected after the last speaker appends a message
Speaks(agent, content) ==
  /\ Len(messages) < MaxMessages
  /\ state_transition_logic(last_speaker, messages) = agent
  /\ messages' = Append(messages, [name |-> agent, content |-> content])
  /\ last_speaker' = agent
  /\ UNCHANGED <<run_vars, tag_vars, retrieve_vars, replies, engine_vars, post_registry>>

\* the Translation_Agent is sent back to: a new candidate
TranslationAgentSpeaks == \E c \in Candidates : Speaks("Translation_Agent", c)

\* tag_check_reply
TagCheckerSpeaks == \E reply \in tag_check_reply(messages) : Speaks("Tag_Checker", reply)

InspectorSpeaks == \E v \in Verdicts : Speaks("Inspector_Agent", v)

\* the polished text (here the text of the last candidate)
PolisherSpeaks ==
  \E i \in 1..Len(messages) :
    /\ messages[i].name = "Translation_Agent"
    /\ \A j \in (i + 1)..Len(messages) : messages[j].name # "Translation_Agent"
    /\ Speaks("Polisher_Agent", messages[i].content)

\* the Reid_Agent has no reply function and no model: an empty reply
ReidSpeaks == Speaks("Reid_Agent", <<>>)

ChatNext ==
  \/ TranslationAgentSpeaks
  \/ TagCheckerSpeaks
  \/ InspectorSpeaks
  \/ PolisherSpeaks
  \/ ReidSpeaks

ChatSpec == ChatInit /\ [][ChatNext]_vars

(***************************************************************************)
(* A run of execute_workflow in a process in which preprocessor_reply_func *)
(* is called too (the Regex_Preprocessor agent answers a message): both    *)
(* work on the module-level registry of PreprocessAgent.py.                *)
(***************************************************************************)
SharedInit == InitWith(SharedRunTexts)

\* preprocessor_reply_func for a last message of ReplyTexts: registry.reset()
\* empties the dict and the list that the registry holds (the list is the
\* object a run in its loop iterates), then the dict is filled for the
\* message and registry.segments is bound to a new list
PreprocessorReply ==
  /\ replies < MaxReplies
  /\ \E last_msg \in ReplyTexts, sfx \in [1..Len(Labels) -> Suffixes] :
       LET r == local_masking_logic(last_msg, <<>>, sfx) IN
       /\ mask_map' = r[2]
       /\ segments' = local_splitting_logic(r[1])
  /\ loop_segments' = <<>>
  /\ replies' = replies + 1
  /\ UNCHANGED <<raw_text, mask_vars, pc, seg_vars, final_results, result, log, restored,
                 faults, tag_vars, retrieve_vars, chat_vars, engine_vars>>

SharedNext ==
  \/ Reset
  \/ Replace
  \/ EndPass
  \/ Split
  \/ ForSegment
  \/ Translate
  \/ TagCheckFail
  \/ TagCheckPass
  \/ LoopExit
  \/ Polish
  \/ Restore
  \/ Join
  \/ PreprocessorReply

SharedSpec == SharedInit /\ [][SharedNext]_vars

(***************************************************************************)
(* TranslationEngine(llm_config)                                           *)
(***************************************************************************)
EngineSpecInit ==
  /\ NoRun
  /\ TagIdle
  /\ RetrieveIdle
  /\ ChatIdle
  /\ replies = 0
  /\ llm_config \in CallerConfigs
  /\ agent_llm_config = <<>>
  /\ engine_pc = "call"

\* TranslationEngine.__init__: the Translation_Agent gets deterministic_config
BuildEngine ==
  /\ engine_pc = "call"
  /\ LET r == EngineInit(llm_config) IN
     /\ llm_config' = r[1]
     /\ agent_llm_config' = r[2]
  /\ engine_pc' = "built"
  /\ UNCHANGED <<run_vars, tag_vars, retrieve_vars, chat_vars, replies>>

EngineNext == BuildEngine

EngineSpec == EngineSpecInit /\ [][EngineNext]_vars

(***************************************************************************)
(* Properties.                                                             *)
(***************************************************************************)
\* positions of execute_workflow inside the body of the loop over the segments
BodyPcs == {"translate", "check", "polish", "restore"}

\* no original value of the registry is part of t
NoOriginal(t) == \A v \in DictValues(mask_map) : ~Contains(t, v)

\* no placeholder of the registry is part of t
NoPlaceholder(t) == \A k \in DictKeys(mask_map) : ~Contains(t, k)

\* the translation attempts logged for segment i: the first translation and
\* one re-translation for every failed tag check
Attempts(i) ==
  Cardinality({j \in 1..Len(log) :
                 /\ log[j][2] = i
                 /\ \/ log[j][1] = "3"
                    \/ log[j][1] = "4" /\ log[j][3] = "fail"})

\* the occurrences of registry placeholders in t, in order
PlaceholdersIn(t) == SelectSeq(FindTags(t, 1), LAMBDA g : g \in DictKeys(mask_map))

RECURSIVE PlaceholdersInAll(_)
PlaceholdersInAll(segs) ==
  IF segs = <<>> THEN <<>>
  ELSE PlaceholdersIn(Head(segs)) \o PlaceholdersInAll(Tail(segs))

\* C1: restoring the unmodified masked text with the registry that masking
\* filled gives back the raw text.
RoundTrip == pc = "reduced" => restored = raw_text

\* C2: a translation is polished and restored only if the most recent tag check
\* of the segment passed and the translation was not replaced since.
RestoreGate == pc \in {"polish", "restore"} => is_tag_ok

\* C3: no segment is translated more than max_retries + 1 times.
RetryTermination == \A i \in 1..Len(segments) : Attempts(i) <= max_retries + 1

\* C4: a segment whose tag check failed with the retries used up is neither
\* polished nor restored.
ExhaustionFails ==
  (~is_valid /\ retry_count > max_retries) => pc \notin {"polish", "restore"}

\* C5: the translation step is handed the masked segment and the polishing step
\* a text made from the masked segment only; no original value of the registry
\* is part of the segment, nor of the translation the mock makes of it.
NoExposure ==
  /\ \A i \in 1..Len(segments) : NoOriginal(segments[i])
  /\ pc \in BodyPcs => segment = segments[idx]
  /\ pc \in {"check", "polish"} =>
       /\ \E b \in TranslateBehaviours :
            current_translation \in {MockTranslation(b, segment), MockRetranslation(b, segment)}
       /\ NoOriginal(MockTranslation("keep", segment))
       /\ NoOriginal(MockRetranslation("keep", segment))

\* a segment that contains a placeholder is about to be translated
NoExposureWitness ==
  /\ pc = "check"
  /\ mask_map # <<>>
  /\ PlaceholdersIn(segment) # <<>>
  /\ current_translation = MockTranslation("keep", segment)

\* C6: no restored segment contains a placeholder of the registry.
RestorationCorrect == \A i \in 1..Len(final_results) : NoPlaceholder(final_results[i])

\* C7: when the tag check passed, the polished text handed to the reducer has
\* the tags of the masked segment.
TagInvariance ==
  (pc = "restore" /\ is_valid) => TagSet(polished_text) = TagSet(segment)

\* C8: every replaced match adds its own entry to the registry and leaves the
\* other entries as they are, and no placeholder is part of another one.
PlaceholderUniqueness ==
  [][(pc = "mask" /\ Len(out') > Len(out)) =>
       /\ Len(mask_map') = Len(mask_map) + 1
       /\ SubSeq(mask_map', 1, Len(mask_map)) = mask_map
       /\ \A i, j \in 1..Len(mask_map') :
            i # j => ~Contains(mask_map'[i][1], mask_map'[j][1])]_vars

\* C9: the placeholder occurrences of the segments, taken in order, are those
\* of the masked text: none is dropped, duplicated or cut by a boundary.
PlaceholderConservation ==
  pc \notin {"start", "mask", "split", "reduced"} =>
    PlaceholdersInAll(segments) = PlaceholdersIn(masked_text)

\* the masked text was split into several segments, two of them with a placeholder
PlaceholderConservationWitness ==
  /\ pc = "for"
  /\ Len(segments) >= 2
  /\ Cardinality({i \in 1..Len(segments) : PlaceholdersIn(segments[i]) # <<>>}) >= 2

\* what the loop body may append for a segment
IsOutputOf(res, seg) ==
  \E b \in TranslateBehaviours :
    \E t \in {MockTranslation(b, seg), MockRetranslation(b, seg)} :
      \E p \in PolishBehaviours :
        res = perform_final_reduction(MockPolish(p, t), mask_map)

\* C10: the results are one per segment in segment order, whatever the tag
\* checks of other segments did, and the returned text is their join.
OrderedOutput ==
  /\ Len(final_results) <= Len(segments)
  /\ pc \in {"for", "done"} =>
       \A i \in 1..Len(final_results) : IsOutputOf(final_results[i], segments[i])
  /\ pc \in BodyPcs \cup {"for"} => Len(final_results) = idx - 1
  /\ pc \in {"join", "done"} => Len(final_results) = Len(segments)
  /\ pc = "done" => result = JoinLines(final_results)

\* a run returned all of its segments although the tag check of the first one
\* failed with the retries used up
OrderedOutputWitness ==
  /\ pc = "done"
  /\ Len(segments) >= 2
  /\ Attempts(1) > max_retries + 1
  /\ segments[1] # segments[2]

\* the tags of a occur among the tags of b
TagsAmong(a, b) ==
  \A i \in 1..Len(FindTags(a, 1)) :
    \E j \in 1..Len(FindTags(b, 1)) : FindTags(a, 1)[i] = FindTags(b, 1)[j]

\* C11: check_tags_consistency returns True exactly when every tag of the
\* source occurs in the candidate and every tag of the candidate occurs in the
\* source, whatever their order and number of occurrences, and the call leaves
\* its arguments, the registry and the run as they are.
TagValidator ==
  [][tag_pc' = "returned" =>
       /\ tags_ok' = (/\ TagsAmong(original_masked, translated_text)
                      /\ TagsAmong(translated_text, original_masked))
       /\ UNCHANGED <<run_vars, original_masked, translated_text>>]_vars

\* the check passed for two texts whose tags differ in order or in number
TagValidatorWitness ==
  /\ tag_pc = "returned"
  /\ tags_ok
  /\ Len(FindTags(original_masked, 1)) = 2
  /\ FindTags(original_masked, 1) # FindTags(translated_text, 1)

\* the tags of t that are no key of the registry
UnmappedTags(t) == TagSet(t) \ DictKeys(mask_map)

\* C12: a text with a tag that is no key of mask_map is not restored into a
\* result: the reduction step appends nothing to final_results for it.
UnmappedIsError ==
  [][(pc = "restore" /\ UnmappedTags(polished_text) # {}) =>
       final_results' = final_results]_vars

\* the term occurs in the text at some position, letter case apart
OccursIgnoringCase(term, text) ==
  \E p \in 1..(Len(text) - Len(term) + 1) :
    \A k \in 1..Len(term) : Lower(text[p + k - 1]) = Lower(term[k])

\* the indexes of the glossary entries whose term occurs in the text
MatchedEntries(text) ==
  {i \in 1..Len(glossary) : OccursIgnoringCase(glossary[i][1], text)}

\* the n-th smallest element of the set S of numbers
NthOf(S, n) == CHOOSE i \in S : Cardinality({j \in S : j < i}) = n - 1

\* C13: exact_term_match returns one match for each glossary entry whose term
\* occurs in the text, letter case apart, none for another entry, in glossary
\* order, and leaves the glossary and the translation memory as they are.
ExactTermMatchResult ==
  [][term_pc' = "returned" =>
       LET matched == MatchedEntries(term_text) IN
       /\ Len(terms') = Cardinality(matched)
       /\ \A n \in 1..Len(terms') :
            /\ terms'[n].term = glossary[NthOf(matched, n)][1]
            /\ terms'[n].translation = glossary[NthOf(matched, n)][2]
       /\ glossary' = glossary
       /\ tm_data' = tm_data]_vars

\* a text that mentions AutoGen only, in another letter case, gave one match
ExactTermMatchWitness ==
  /\ term_pc = "returned"
  /\ ~Contains(term_text, AutoGen)
  /\ Len(terms) = 1
  /\ terms[1].term = AutoGen

\* how often the Translation_Agent was sent back to in the chat
TranslatorReturns ==
  Cardinality({i \in 2..Len(messages) : messages[i].name = "Translation_Agent"})

\* C14: in a group chat the Translation_Agent is sent back to at most
\* max_retries times.
ChatRetriesBounded == TranslatorReturns <= max_retries

\* C15: after the Tag_Checker has spoken, the Inspector_Agent is selected if
\* the tags of the candidate are those of the original, and the
\* Translation_Agent if they are not.
TagCheckRouting ==
  (last_speaker = "Tag_Checker" /\ Len(messages) >= 2) =>
    state_transition_logic(last_speaker, messages) =
      IF check_tags_consistency(MaskedTest, messages[Len(messages) - 1].content)
      THEN "Inspector_Agent"
      ELSE "Translation_Agent"

\* C16: a call of preprocessor_reply_func while a run is between its reset and
\* its return leaves the mappings and the segment list of the run as they
\* are, and a run that returns has one result for each segment of its own
\* masked text.
RunIsolation ==
  [][/\ (replies' # replies /\ pc \notin {"start", "done"}) =>
          (mask_map' = mask_map /\ loop_segments' = loop_segments)
     /\ pc' = "done" =>
          Len(final_results') = Len(local_splitting_logic(masked_text'))]_vars

\* C17: every replaced match writes an entry under a key the registry did not
\* hold and leaves the entries written before as they are, and no step after
\* the masking changes mask_map.
RegistryWriteOnce ==
  [][/\ (pc = "mask" /\ Len(out') > Len(out)) =>
          /\ Len(mask_map') = Len(mask_map) + 1
          /\ \A i \in 1..Len(mask_map) : mask_map'[i] = mask_map[i]
     /\ pc \notin {"start", "mask"} => mask_map' = mask_map]_vars

\* C18: the retry count of a segment is 0 when its translation is made, changes
\* only by 1 on a failed tag check of that segment, and never exceeds
\* max_retries.
RetryBudget ==
  [][/\ pc = "translate" => retry_count' = 0
     /\ (pc # "translate" /\ retry_count' # retry_count) =>
          /\ pc = "check"
          /\ ~check_tags_consistency(segment, current_translation)
          /\ retry_count' = retry_count + 1
     /\ retry_count' <= max_retries]_vars

\* C19: no detector matches a text that holds a placeholder made earlier: no
\* original recorded in the registry contains a key of the registry.
NoRemasking ==
  \A i \in 1..Len(mask_map) :
    \A k \in DictKeys(mask_map) : ~Contains(mask_map[i][2], k)

\* C20: whatever dict the caller passes, the agent is built with temperature 0
\* and seed 42, and the dict of the caller is as it was.
DeterministicEngine ==
  [][engine_pc' = "built" =>
       /\ DictGet(agent_llm_config', "temperature") = "0"
       /\ DictGet(agent_llm_config', "seed") = "42"
       /\ llm_config' = llm_config]_vars

\* an engine was built from a dict with a temperature and a seed of its own
DeterministicEngineWitness ==
  /\ engine_pc = "built"
  /\ {"temperature", "seed"} \subseteq DictKeys(llm_config)
  /\ DictGet(llm_config, "temperature") = "0.7"
  /\ DictGet(llm_config, "seed") = "7"

====
